---- MODULE Spec2Model ----
(***************************************************************************)
(* Recipe-to-cart resolution of Picnic-kobo.                               *)
(*                                                                         *)
(*   - the recipe-import session of RecipesPage.tsx (input -> matching ->  *)
(*     review, selection edits, commit, cancel), with its three react-query*)
(*     mutations as requests in flight;                                    *)
(*   - the bulk_add_to_cart tool of the MCP server (stdio and /call-tool); *)
(*   - the get_order_history tool of the MCP server;                       *)
(*   - the cart store of the frontend with its calls in flight;            *)
(*   - the auth store behind AuthGuard, with the PinSetup form;            *)
(*   - the confidence tiers of the review UI.                              *)
(*                                                                         *)
(* Confidences are floats in [0,1] in the program; the model keeps them in *)
(* hundredths (0..100), so 0.7 is 70 and 0.4 is 40.  Array indices are     *)
(* 1-based here and 0-based in the program.                                *)
(***************************************************************************)
EXTENDS Integers, Sequences, FiniteSets, TLC

\* ------------------------------------------------------------------ bounds
MaxIngredients == 2
MaxItems == 3
MaxDeliveries == 3
MaxLimit == 2
MaxQuantity == 2
MaxInFlight == 2
MaxTyped == 7

\* --------------------------------------------------------------- constants
CONFIDENCE_HIGH == 70
CONFIDENCE_MEDIUM == 40
NoIndex == 0

\* `undefined` in a slot that holds a ProductMatchOption
Undefined == [id |-> "undefined", confidence |-> 0]

\* JavaScript truthiness of an optional object
Truthy(x) == x # Undefined

\* ------------------------------------------------------- sequence helpers
\* Array.prototype.filter: the elements satisfying Keep, in order
FilterSeq(s, Keep(_)) == SelectSeq(s, Keep)

\* Array.prototype.findIndex, 1-based; NoIndex when nothing matches (-1)
FindIndex(s, Test(_)) ==
  IF \E i \in 1..Len(s) : Test(s[i])
  THEN CHOOSE i \in 1..Len(s) : Test(s[i]) /\ \A j \in 1..(i - 1) : ~Test(s[j])
  ELSE NoIndex

\* arr[0]: the first element, undefined for an empty array
FirstOf(s) == IF Len(s) > 0 THEN s[1] ELSE Undefined

\* ------------------------------------------------- review UI (pure helpers)
getConfidenceColor(confidence) ==
  IF confidence >= CONFIDENCE_HIGH THEN "text-green-600"
  ELSE IF confidence >= CONFIDENCE_MEDIUM THEN "text-yellow-600"
  ELSE "text-red-600"

getConfidenceBg(confidence) ==
  IF confidence >= CONFIDENCE_HIGH THEN "bg-green-50 border-green-200"
  ELSE IF confidence >= CONFIDENCE_MEDIUM THEN "bg-yellow-50 border-yellow-200"
  ELSE "bg-red-50 border-red-200"

getConfidenceLabel(confidence) ==
  IF confidence >= CONFIDENCE_HIGH THEN "Zeker"
  ELSE IF confidence >= CONFIDENCE_MEDIUM THEN "Controleer"
  ELSE "Onzeker"

\* strict comparison at the upper threshold
confidenceBadge_strict(best_confidence) ==
  [cls  |-> IF best_confidence > CONFIDENCE_HIGH THEN "bg-green-100 text-green-700"
            ELSE IF best_confidence >= CONFIDENCE_MEDIUM THEN "bg-yellow-100 text-yellow-700"
            ELSE "bg-red-100 text-red-700",
   icon |-> IF best_confidence > CONFIDENCE_HIGH THEN "CheckCircle" ELSE "AlertTriangle"]

\* the confidence badge of a review row: colour classes and icon
confidenceBadge(best_confidence) ==
  [cls  |-> IF best_confidence >= CONFIDENCE_HIGH THEN "bg-green-100 text-green-700"
            ELSE IF best_confidence >= CONFIDENCE_MEDIUM THEN "bg-yellow-100 text-yellow-700"
            ELSE "bg-red-100 text-red-700",
   icon |-> IF best_confidence >= CONFIDENCE_HIGH THEN "CheckCircle" ELSE "AlertTriangle"]

\* ------------------------------------------- match classifier (backend)
\* a confidence of exactly 0.7 is not yet matched
classify_strict(ingredient, candidates) ==
  LET best == IF Len(candidates) > 0 THEN candidates[1].confidence ELSE 0
  IN [ingredient      |-> ingredient,
      matches         |-> candidates,
      selected        |-> FirstOf(candidates),
      status          |-> IF Len(candidates) = 0 THEN "not_found"
                          ELSE IF best > 70 THEN "matched"
                          ELSE IF best >= 40 THEN "partial"
                          ELSE "uncertain",
      best_confidence |-> best,
      needs_review    |-> (Len(candidates) = 0 \/ best <= 70)]

\* Tier policy of the Match Classifier; the backend that implements it is
\* not part of the frontend sources, the policy is the documented one.
classify(ingredient, candidates) ==
  LET best == IF Len(candidates) > 0 THEN candidates[1].confidence ELSE 0
  IN [ingredient      |-> ingredient,
      matches         |-> candidates,
      selected        |-> FirstOf(candidates),
      status          |-> IF Len(candidates) = 0 THEN "not_found"
                          ELSE IF best >= 70 THEN "matched"
                          ELSE IF best >= 40 THEN "partial"
                          ELSE "uncertain",
      best_confidence |-> best,
      needs_review    |-> (Len(candidates) = 0 \/ best < 70)]

\* Candidate lists the catalog matcher can return for one descriptor: sorted
\* by descending confidence, one per tier, with the boundary values.
CandidateLists ==
  { <<>>,
    << [id |-> "p1", confidence |-> 70], [id |-> "p2", confidence |-> 40] >>,
    << [id |-> "p3", confidence |-> 40] >>,
    << [id |-> "p4", confidence |-> 39] >> }

\* What one catalog search can end with: hits, or a failure / timeout, which
\* counts as zero hits.
SearchOutcomes ==
  {[failed |-> FALSE, hits |-> c] : c \in CandidateLists}
  \cup {[failed |-> TRUE, hits |-> <<>>]}

\* the hits of the search for descriptor k among the completed searches
HitsFor(completed, k) ==
  (CHOOSE e \in {completed[j] : j \in 1..Len(completed)} : e.index = k).hits

\* an optional number of a response: <<>> when the field is left out
Counted(present, n) == IF present THEN <<n>> ELSE <<>>

\* the descriptor whose search failed gets no record
MatchProductsResponse_dropsFailed(ingredients, completed, counted) ==
  LET kept == SelectSeq([k \in 1..Len(ingredients) |-> k],
                        LAMBDA k : \A j \in 1..Len(completed) :
                                      completed[j].index = k => ~completed[j].failed)
      recs == [i \in 1..Len(kept) |->
                 classify(ingredients[kept[i]], HitsFor(completed, kept[i]))]
  IN [matches            |-> recs,
      needs_review_count |->
        Counted(counted, Len(FilterSeq(recs, LAMBDA r : r.needs_review)))]

\* the records are assembled in the order in which the searches completed
MatchProductsResponse_completionOrder(ingredients, completed, counted) ==
  LET recs == [j \in 1..Len(completed) |->
                 classify(ingredients[completed[j].index], completed[j].hits)]
  IN [matches            |-> recs,
      needs_review_count |->
        Counted(counted, Len(FilterSeq(recs, LAMBDA r : r.needs_review)))]

\* /recipes/match-products: one classified record per descriptor, reassembled
\* by original index whatever the completion order of the searches;
\* needs_review_count is an optional field of the response
MatchProductsResponse(ingredients, completed, counted) ==
  LET recs == [k \in 1..Len(ingredients) |->
                 classify(ingredients[k], HitsFor(completed, k))]
  IN [matches            |-> recs,
      needs_review_count |->
        Counted(counted, Len(FilterSeq(recs, LAMBDA r : r.needs_review)))]

\* ------------------------------------------------ cart store (frontend)
\* The store's cart for one product: null before the first fetch, otherwise
\* the quantity of the product in items (0: no such item) and total_count.
NullCart == [isNull |-> TRUE, quantity |-> 0, total_count |-> 0]

CartOf(q) == [isNull |-> FALSE, quantity |-> q, total_count |-> q]

\* { items: [], total_price: 0, total_count: 0 }
EmptyCart == CartOf(0)

\* the carts a server response can carry
ServerCarts == {CartOf(q) : q \in 0..MaxQuantity}

VARIABLES
  \* useCartStore state
  cart, cartIsLoading, cartError,
  \* the store calls in flight, in the order they were started:
  \* [op, currentCart], currentCart being the local captured by the call;
  \* fetchCart and bulkAdd have no such local and their entry is [op]
  cartCalls,
  \* the cart of the last successful server response received by the store,
  \* NullCart before the first one
  lastConfirmed,
  \* how the request of the step just taken ended: "none", "resolved", "rejected"
  settledAs,
  \* whether the step just taken rethrew an error to its caller
  thrown

cartVars == <<cart, cartIsLoading, cartError, cartCalls, lastConfirmed,
              settledAs, thrown>>

InitCart ==
  /\ cart = NullCart
  /\ cartIsLoading = FALSE
  /\ cartError = FALSE
  /\ cartCalls = <<>>
  /\ lastConfirmed = NullCart
  /\ settledAs = "none"
  /\ thrown = FALSE

\* a store call starts and awaits its request; at most MaxInFlight calls are
\* in flight at a time
started(op) ==
  /\ Len(cartCalls) < MaxInFlight
  /\ cartCalls' = Append(cartCalls,
                         IF op \in {"addItem", "removeItem", "clearCart"}
                         THEN [op |-> op, currentCart |-> cart]
                         ELSE [op |-> op])
  /\ settledAs' = "none"
  /\ thrown' = FALSE
  /\ UNCHANGED lastConfirmed

\* fetchCart: set({isLoading: true, error: null}), then getCart is awaited
fetchCart ==
  /\ started("fetchCart")
  /\ cartIsLoading' = TRUE
  /\ cartError' = FALSE
  /\ UNCHANGED cart

\* addItem(productId, 1): optimistic update of an existing item, then the
\* request is awaited
addItem ==
  /\ started("addItem")
  /\ cart.quantity < MaxQuantity
  /\ cart' = IF ~cart.isNull /\ cart.quantity > 0
             THEN [cart EXCEPT !.quantity = @ + 1, !.total_count = @ + 1]
             ELSE cart
  /\ UNCHANGED <<cartIsLoading, cartError>>

\* removeItem(productId, 1): no optimistic update
removeItem ==
  /\ started("removeItem")
  /\ UNCHANGED <<cart, cartIsLoading, cartError>>

\* clearCart: the cart is emptied at once, then the request is awaited
clearCart ==
  /\ started("clearCart")
  /\ cart' = EmptyCart
  /\ UNCHANGED <<cartIsLoading, cartError>>

\* bulkAdd(items): no optimistic update
bulkAdd ==
  /\ started("bulkAdd")
  /\ UNCHANGED <<cart, cartIsLoading, cartError>>

\* cartCalls without its k-th element
without(calls, k) ==
  [i \in 1..(Len(calls) - 1) |-> IF i < k THEN calls[i] ELSE calls[i + 1]]

\* the request of call k succeeds with `responseCart`: the rest of the try block
callResolves(k, responseCart) ==
  /\ k \in 1..Len(cartCalls)
  /\ cart' = IF cartCalls[k].op = "clearCart" THEN cart ELSE responseCart
  /\ lastConfirmed' = IF cartCalls[k].op = "clearCart" THEN EmptyCart
                      ELSE responseCart
  /\ cartIsLoading' = IF cartCalls[k].op = "fetchCart" THEN FALSE ELSE cartIsLoading
  /\ cartCalls' = without(cartCalls, k)
  /\ settledAs' = "resolved"
  /\ thrown' = FALSE
  /\ UNCHANGED cartError

\* the catch block restores nothing
callRejects_noRollback(k) ==
  /\ k \in 1..Len(cartCalls)
  /\ cart' = cart
  /\ cartError' = IF cartCalls[k].op = "fetchCart" THEN TRUE ELSE cartError
  /\ cartIsLoading' = IF cartCalls[k].op = "fetchCart" THEN FALSE ELSE cartIsLoading
  /\ cartCalls' = without(cartCalls, k)
  /\ settledAs' = "rejected"
  /\ thrown' = (cartCalls[k].op # "fetchCart")
  /\ UNCHANGED lastConfirmed

\* the request of call k fails: the catch block
callRejects(k) ==
  /\ k \in 1..Len(cartCalls)
  /\ cart' = IF cartCalls[k].op \in {"addItem", "removeItem", "clearCart"}
             THEN cartCalls[k].currentCart
             ELSE cart
  /\ cartError' = IF cartCalls[k].op = "fetchCart" THEN TRUE ELSE cartError
  /\ cartIsLoading' = IF cartCalls[k].op = "fetchCart" THEN FALSE ELSE cartIsLoading
  /\ cartCalls' = without(cartCalls, k)
  /\ settledAs' = "rejected"
  /\ thrown' = (cartCalls[k].op # "fetchCart")
  /\ UNCHANGED lastConfirmed

InputValues == {"", "x"}
Titles == {"", "Pasta"}

VARIABLES
  \* RecipesPage component state
  inputMode, step, urlInput, textInput, recipeTitle, matches,
  expandedIndex, needsReviewCount,
  \* parseUrlMutation / parseTextMutation: "idle", "parsing" (mutationFn in
  \* flight) or "matching" (onSuccess awaiting matchProductsToIngredients)
  parseState,
  \* which of the two parse mutations is running: "none", "url" or "text"
  parseKind,
  \* parsed_ingredients of the parse response held by the running onSuccess
  parsedIngredients,
  \* addToCartMutation: "idle" or "pending"
  commitState,
  \* the body POSTed to /recipes/add-to-cart by the step just taken, <<>> when
  \* that step sent no request
  addToCartRequest,
  \* the toast shown by the step just taken: "none", "success" or "error"
  toast,
  \* the catalog searches of the match request in flight that have completed,
  \* in completion order: [index, failed, hits]
  searches,
  \* the completed searches behind the match response that the step just
  \* taken installed, <<>> when that step installed none
  answeredSearches

pageVars == <<inputMode, step, urlInput, textInput, recipeTitle, matches,
              expandedIndex, needsReviewCount, parseState, parseKind,
              parsedIngredients, commitState, addToCartRequest, toast,
              searches, answeredSearches>>

\* ----------------------------------------------------------- RecipesPage
\* the commit sends every record
selectedMatches_all == matches

selectedMatches == FilterSeq(matches, LAMBDA m : Truthy(m.selected))
isLoading == parseState # "idle"

InitPage ==
  /\ inputMode = "url"
  /\ step = "input"
  /\ urlInput = ""
  /\ textInput = ""
  /\ recipeTitle = ""
  /\ matches = <<>>
  /\ expandedIndex = NoIndex
  /\ needsReviewCount = 0
  /\ parseState = "idle"
  /\ parseKind = "none"
  /\ parsedIngredients = <<>>
  /\ commitState = "idle"
  /\ addToCartRequest = <<>>
  /\ toast = "none"
  /\ searches = <<>>
  /\ answeredSearches = <<>>

\* the reset forgets the textarea
resetForm_keepsText ==
  /\ step' = "input"
  /\ urlInput' = ""
  /\ textInput' = textInput
  /\ recipeTitle' = ""
  /\ matches' = <<>>
  /\ expandedIndex' = NoIndex
  /\ needsReviewCount' = 0

\* the state written by resetForm
resetForm ==
  /\ step' = "input"
  /\ urlInput' = ""
  /\ textInput' = ""
  /\ recipeTitle' = ""
  /\ matches' = <<>>
  /\ expandedIndex' = NoIndex
  /\ needsReviewCount' = 0

\* the URL / Tekst toggle of the input step
setInputMode(m) ==
  /\ step = "input"
  /\ inputMode # m
  /\ inputMode' = m
  /\ addToCartRequest' = <<>>
  /\ toast' = "none"
  /\ UNCHANGED searches
  /\ answeredSearches' = <<>>
  /\ UNCHANGED <<step, urlInput, textInput, recipeTitle, matches, expandedIndex,
                 needsReviewCount, parseState, parseKind, parsedIngredients,
                 commitState>>

\* typing in the URL field (rendered in the input step, url mode)
setUrlInput(v) ==
  /\ step = "input"
  /\ inputMode = "url"
  /\ urlInput # v
  /\ urlInput' = v
  /\ addToCartRequest' = <<>>
  /\ toast' = "none"
  /\ UNCHANGED searches
  /\ answeredSearches' = <<>>
  /\ UNCHANGED <<inputMode, step, textInput, recipeTitle, matches,
                 expandedIndex, needsReviewCount, parseState, parseKind,
                 parsedIngredients, commitState>>

\* typing in the textarea (rendered in the input step, text mode)
setTextInput(v) ==
  /\ step = "input"
  /\ inputMode = "text"
  /\ textInput # v
  /\ textInput' = v
  /\ addToCartRequest' = <<>>
  /\ toast' = "none"
  /\ UNCHANGED searches
  /\ answeredSearches' = <<>>
  /\ UNCHANGED <<inputMode, step, urlInput, recipeTitle, matches, expandedIndex,
                 needsReviewCount, parseState, parseKind, parsedIngredients,
                 commitState>>

\* "Ingredienten zoeken": disabled without input and while a parse is pending
handleSubmit ==
  /\ step = "input"
  /\ ~isLoading
  /\ \/ inputMode = "url" /\ urlInput # ""
     \/ inputMode = "text" /\ textInput # ""
  /\ parseState' = "parsing"
  /\ parseKind' = inputMode
  /\ addToCartRequest' = <<>>
  /\ toast' = "none"
  /\ UNCHANGED searches
  /\ answeredSearches' = <<>>
  /\ UNCHANGED <<inputMode, step, urlInput, textInput, recipeTitle, matches,
                 expandedIndex, needsReviewCount, parsedIngredients,
                 commitState>>

\* parseRecipeUrl / parseIngredientText rejects: onError shows a toast
parseFails ==
  /\ parseState = "parsing"
  /\ parseState' = "idle"
  /\ parseKind' = "none"
  /\ addToCartRequest' = <<>>
  /\ toast' = "error"
  /\ UNCHANGED searches
  /\ answeredSearches' = <<>>
  /\ UNCHANGED <<inputMode, step, urlInput, textInput, recipeTitle, matches,
                 expandedIndex, needsReviewCount, parsedIngredients,
                 commitState>>

\* the parse response arrives: onSuccess runs up to its await
parseSucceeds(title, n) ==
  /\ parseState = "parsing"
  /\ parseState' = "matching"
  /\ recipeTitle' = IF parseKind = "url"
                    THEN (IF title # "" THEN title ELSE "Recept")
                    ELSE "Ingredienten"
  /\ step' = "matching"
  /\ parsedIngredients' = [k \in 1..n |-> k]
  /\ addToCartRequest' = <<>>
  /\ toast' = "none"
  /\ UNCHANGED searches
  /\ answeredSearches' = <<>>
  /\ UNCHANGED <<inputMode, parseKind, urlInput, textInput, matches,
                 expandedIndex, needsReviewCount, commitState>>

\* only records that need no review are pre-selected
processedMatches_onlyConfident(matched) ==
  [k \in 1..Len(matched.matches) |->
     [matched.matches[k] EXCEPT !.selected =
        IF matched.matches[k].needs_review THEN Undefined
        ELSE FirstOf(matched.matches[k].matches)]]

\* matched.matches.map(m => ({...m, selected: m.matches[0]}))
processedMatches(matched) ==
  [k \in 1..Len(matched.matches) |->
     [matched.matches[k] EXCEPT !.selected = FirstOf(matched.matches[k].matches)]]

\* the backend finishes one catalog search of the match request in flight
searchCompletes(k, outcome) ==
  /\ parseState = "matching"
  /\ k \in 1..Len(parsedIngredients)
  /\ \A j \in 1..Len(searches) : searches[j].index # k
  /\ searches' = Append(searches, [index |-> k, failed |-> outcome.failed,
                                   hits |-> outcome.hits])
  /\ answeredSearches' = <<>>
  /\ addToCartRequest' = <<>>
  /\ toast' = "none"
  /\ UNCHANGED <<inputMode, step, urlInput, textInput, recipeTitle, matches,
                 expandedIndex, needsReviewCount, parseState, parseKind,
                 parsedIngredients, commitState>>

\* matched.needs_review_count || 0
OrZero(optional) == IF Len(optional) = 0 THEN 0 ELSE optional[1]

\* the body POSTed to /recipes/match-products: the ingredients as parsed
matchProductsToIngredients(ingredients) == ingredients

\* the records are installed but the step is left as it was
matchSucceeds_keepsStep(counted) ==
  /\ parseState = "matching"
  /\ Len(searches) = Len(parsedIngredients)
  /\ LET matched   == MatchProductsResponse(matchProductsToIngredients(parsedIngredients),
                                            searches, counted)
         processed == processedMatches(matched)
         firstUncertain == FindIndex(processed, LAMBDA m : m.needs_review)
     IN /\ matches' = processed
        /\ needsReviewCount' = OrZero(matched.needs_review_count)
        /\ step' = step
        /\ expandedIndex' = IF firstUncertain # NoIndex THEN firstUncertain
                            ELSE expandedIndex
  /\ parseState' = "idle"
  /\ parseKind' = "none"
  /\ parsedIngredients' = <<>>
  /\ addToCartRequest' = <<>>
  /\ toast' = "none"
  /\ searches' = <<>>
  /\ answeredSearches' = searches
  /\ UNCHANGED <<inputMode, urlInput, textInput, recipeTitle, commitState>>

\* the match response arrives, with or without needs_review_count: the rest
\* of onSuccess
matchSucceeds(counted) ==
  /\ parseState = "matching"
  /\ Len(searches) = Len(parsedIngredients)
  /\ LET matched   == MatchProductsResponse(matchProductsToIngredients(parsedIngredients),
                                            searches, counted)
         processed == processedMatches(matched)
         firstUncertain == FindIndex(processed, LAMBDA m : m.needs_review)
     IN /\ matches' = processed
        /\ needsReviewCount' = OrZero(matched.needs_review_count)
        /\ step' = "review"
        /\ expandedIndex' = IF firstUncertain # NoIndex THEN firstUncertain
                            ELSE expandedIndex
  /\ parseState' = "idle"
  /\ parseKind' = "none"
  /\ parsedIngredients' = <<>>
  /\ addToCartRequest' = <<>>
  /\ toast' = "none"
  /\ searches' = <<>>
  /\ answeredSearches' = searches
  /\ UNCHANGED <<inputMode, urlInput, textInput, recipeTitle, commitState>>

\* matchProductsToIngredients rejects: onSuccess throws, onError shows a toast
matchFails ==
  /\ parseState = "matching"
  /\ parseState' = "idle"
  /\ parseKind' = "none"
  /\ parsedIngredients' = <<>>
  /\ addToCartRequest' = <<>>
  /\ toast' = "error"
  /\ searches' = <<>>
  /\ answeredSearches' = <<>>
  /\ UNCHANGED <<inputMode, step, urlInput, textInput, recipeTitle, matches,
                 expandedIndex, needsReviewCount, commitState>>

\* deselecting removes the record from the list
toggled_drops(prev, index) ==
  IF Truthy(prev[index].selected)
  THEN [i \in 1..(Len(prev) - 1) |-> IF i < index THEN prev[i] ELSE prev[i + 1]]
  ELSE [i \in 1..Len(prev) |->
          IF i = index THEN [prev[i] EXCEPT !.selected = FirstOf(prev[i].matches)]
          ELSE prev[i]]

\* prev.map((m, i) => i === index ? {...m, selected: m.selected ? undefined : m.matches[0]} : m)
toggled(prev, index) ==
  [i \in 1..Len(prev) |->
     IF i = index
     THEN [prev[i] EXCEPT !.selected = IF Truthy(prev[i].selected) THEN Undefined
                                       ELSE FirstOf(prev[i].matches)]
     ELSE prev[i]]

\* re-selecting takes the last candidate instead of the first
toggleSelection_lastCandidate(index) ==
  /\ step = "review"
  /\ index \in 1..Len(matches)
  /\ matches' = [matches EXCEPT ![index].selected =
                   IF Truthy(@) THEN Undefined
                   ELSE IF Len(matches[index].matches) > 0
                        THEN matches[index].matches[Len(matches[index].matches)]
                        ELSE Undefined]
  /\ addToCartRequest' = <<>>
  /\ toast' = "none"
  /\ UNCHANGED searches
  /\ answeredSearches' = <<>>
  /\ UNCHANGED <<inputMode, step, urlInput, textInput, recipeTitle,
                 expandedIndex, needsReviewCount, parseState, parseKind,
                 parsedIngredients, commitState>>

\* click on the main row of record `index`
toggleSelection(index) ==
  /\ step = "review"
  /\ index \in 1..Len(matches)
  /\ matches' = toggled(matches, index)
  /\ addToCartRequest' = <<>>
  /\ toast' = "none"
  /\ UNCHANGED searches
  /\ answeredSearches' = <<>>
  /\ UNCHANGED <<inputMode, step, urlInput, textInput, recipeTitle,
                 expandedIndex, needsReviewCount, parseState, parseKind,
                 parsedIngredients, commitState>>

\* prev.map((m, i) => i === matchIndex ? {...m, selected: product} : m)
withProduct(prev, matchIndex, product) ==
  [i \in 1..Len(prev) |->
     IF i = matchIndex THEN [prev[i] EXCEPT !.selected = product] ELSE prev[i]]

\* the panel lists the first record's products whichever record is expanded
selectProduct_fromFirstRecord(matchIndex, pIndex) ==
  /\ step = "review"
  /\ matchIndex \in 1..Len(matches)
  /\ expandedIndex = matchIndex
  /\ pIndex \in 1..Len(matches[1].matches)
  /\ matches' = withProduct(matches, matchIndex, matches[1].matches[pIndex])
  /\ expandedIndex' = NoIndex
  /\ addToCartRequest' = <<>>
  /\ toast' = "none"
  /\ UNCHANGED searches
  /\ answeredSearches' = <<>>
  /\ UNCHANGED <<inputMode, step, urlInput, textInput, recipeTitle,
                 needsReviewCount, parseState, parseKind, parsedIngredients,
                 commitState>>

\* click on a product of the expanded alternatives panel of record matchIndex
selectProduct(matchIndex, pIndex) ==
  /\ step = "review"
  /\ matchIndex \in 1..Len(matches)
  /\ expandedIndex = matchIndex
  /\ pIndex \in 1..Len(matches[matchIndex].matches)
  /\ matches' = withProduct(matches, matchIndex, matches[matchIndex].matches[pIndex])
  /\ expandedIndex' = NoIndex
  /\ addToCartRequest' = <<>>
  /\ toast' = "none"
  /\ UNCHANGED searches
  /\ answeredSearches' = <<>>
  /\ UNCHANGED <<inputMode, step, urlInput, textInput, recipeTitle,
                 needsReviewCount, parseState, parseKind, parsedIngredients,
                 commitState>>

\* the chevron button, rendered for a found record with more than one option
toggleExpanded(index) ==
  /\ step = "review"
  /\ index \in 1..Len(matches)
  /\ matches[index].status # "not_found"
  /\ Len(matches[index].matches) > 1
  /\ expandedIndex' = IF expandedIndex = index THEN NoIndex ELSE index
  /\ addToCartRequest' = <<>>
  /\ toast' = "none"
  /\ UNCHANGED searches
  /\ answeredSearches' = <<>>
  /\ UNCHANGED <<inputMode, step, urlInput, textInput, recipeTitle, matches,
                 needsReviewCount, parseState, parseKind, parsedIngredients,
                 commitState>>

\* the button stays enabled while the request is pending
commitClick_whilePending ==
  /\ step = "review"
  /\ Len(selectedMatches) # 0
  /\ commitState' = "pending"
  /\ addToCartRequest' = selectedMatches
  /\ toast' = "none"
  /\ UNCHANGED searches
  /\ answeredSearches' = <<>>
  /\ UNCHANGED <<inputMode, step, urlInput, textInput, recipeTitle, matches,
                 expandedIndex, needsReviewCount, parseState, parseKind, parsedIngredients>>

\* "N producten toevoegen": addToCartMutation.mutate(selectedMatches)
commitClick ==
  /\ step = "review"
  /\ Len(selectedMatches) # 0
  /\ commitState = "idle"
  /\ commitState' = "pending"
  /\ addToCartRequest' = selectedMatches
  /\ toast' = "none"
  /\ UNCHANGED searches
  /\ answeredSearches' = <<>>
  /\ UNCHANGED <<inputMode, step, urlInput, textInput, recipeTitle, matches,
                 expandedIndex, needsReviewCount, parseState, parseKind, parsedIngredients>>

\* addMatchedToCart resolves: toast, fetchCart() on the cart store (a GET /cart
\* in flight, at most MaxInFlight of them), resetForm
commitSucceeds ==
  /\ commitState = "pending"
  /\ commitState' = "idle"
  /\ addToCartRequest' = <<>>
  /\ toast' = "success"
  /\ fetchCart
  /\ resetForm
  /\ UNCHANGED searches
  /\ answeredSearches' = <<>>
  /\ UNCHANGED <<inputMode, parseState, parseKind, parsedIngredients>>

\* addMatchedToCart rejects: onError shows a toast
commitFails ==
  /\ commitState = "pending"
  /\ commitState' = "idle"
  /\ addToCartRequest' = <<>>
  /\ toast' = "error"
  /\ UNCHANGED searches
  /\ answeredSearches' = <<>>
  /\ UNCHANGED <<inputMode, step, urlInput, textInput, recipeTitle, matches,
                 expandedIndex, needsReviewCount, parseState, parseKind, parsedIngredients>>

\* the "Opnieuw" button of the review step
Opnieuw ==
  /\ step = "review"
  /\ resetForm
  /\ addToCartRequest' = <<>>
  /\ toast' = "none"
  /\ UNCHANGED searches
  /\ answeredSearches' = <<>>
  /\ UNCHANGED <<inputMode, parseState, parseKind, parsedIngredients,
                 commitState>>

\* ------------------------------------------ bulk_add_to_cart (MCP server)
Products == {"p1", "p2"}

\* items as sent by a caller: count is optional
ItemInputs == {[productId |-> p] : p \in Products}
              \cup {[productId |-> p, count |-> 2] : p \in Products}

RECURSIVE SeqsUpTo(_, _)
\* the sequences over S of length at most n
SeqsUpTo(S, n) ==
  IF n = 0 THEN {<<>>}
  ELSE LET shorter == SeqsUpTo(S, n - 1)
       IN shorter \cup {Append(q, x) : q \in shorter, x \in S}

\* BulkAddToCartSchema.parse: count defaults to 1
BulkAddToCartSchema(items) ==
  [k \in 1..Len(items) |->
     IF "count" \in DOMAIN items[k] THEN items[k]
     ELSE [productId |-> items[k].productId, count |-> 1]]

VARIABLES
  \* "stdio" (CallToolRequest handler) or "http" (POST /call-tool)
  bTransport,
  \* position of the handler: "idle", "loop", "awaitAdd", "awaitCart", "done"
  bPc,
  \* the parsed items, the loop position and the results array
  bItems, bIdx, bResults,
  \* requests issued to the Picnic client, in order, each with its outcome:
  \* "pending", "resolved" or "rejected"
  bCalls,
  \* the shopping cart held by Picnic: quantity per product
  bCart,
  \* what the handler answered
  bResponse

bulkVars == <<bTransport, bPc, bItems, bIdx, bResults, bCalls, bCart, bResponse>>

NoResponse == [shape |-> "none"]

InitBulk ==
  /\ bTransport = "stdio"
  /\ bPc = "idle"
  /\ bItems = <<>>
  /\ bIdx = 1
  /\ bResults = <<>>
  /\ bCalls = <<>>
  /\ bCart = [p \in Products |-> 0]
  /\ bResponse = NoResponse

\* the request in flight (the last one issued) settles with `outcome`
settled(calls, outcome) ==
  [calls EXCEPT ![Len(calls)] = [@ EXCEPT !.outcome = outcome]]

\* the outer catch: isError on stdio, HTTP 500 on /call-tool
errorResponse(transport, errorMessage) ==
  IF transport = "stdio"
  THEN [shape |-> "error", isError |-> TRUE, text |-> <<"Error: ", errorMessage>>]
  ELSE [shape |-> "error", status |-> 500, error |-> errorMessage]

\* `failed` counts every result instead of the failed ones
aggregateResponse_failedCountsAll(results, cartData) ==
  [shape   |-> "result",
   added   |-> Len(FilterSeq(results, LAMBDA r : r.success)),
   failed  |-> Len(results),
   results |-> results,
   cart    |-> cartData]

\* the aggregate answer built after the loop
aggregateResponse(results, cartData) ==
  [shape   |-> "result",
   added   |-> Len(FilterSeq(results, LAMBDA r : r.success)),
   failed  |-> Len(FilterSeq(results, LAMBDA r : ~r.success)),
   results |-> results,
   cart    |-> cartData]

\* a tool call whose arguments pass the schema
bulkCall(transport, items) ==
  /\ bPc = "idle"
  /\ bTransport' = transport
  /\ bItems' = BulkAddToCartSchema(items)
  /\ bIdx' = 1
  /\ bResults' = <<>>
  /\ bPc' = "loop"
  /\ UNCHANGED <<bCalls, bCart, bResponse>>

\* a tool call whose arguments the schema rejects: parse throws
bulkCallInvalid(transport) ==
  /\ bPc = "idle"
  /\ bTransport' = transport
  /\ bResponse' = errorResponse(transport, "ZodError")
  /\ bPc' = "done"
  /\ UNCHANGED <<bItems, bIdx, bResults, bCalls, bCart>>

\* the add is fired without being awaited and the loop moves on
addIssue_noAwait ==
  /\ bPc = "loop"
  /\ bIdx <= Len(bItems)
  /\ bCalls' = Append(bCalls, [op |-> "addProductToShoppingCart",
                               productId |-> bItems[bIdx].productId,
                               count |-> bItems[bIdx].count,
                               outcome |-> "pending"])
  /\ bIdx' = bIdx + 1
  /\ bPc' = "loop"
  /\ UNCHANGED <<bTransport, bItems, bResults, bCart, bResponse>>

\* loop body: picnicClient.addProductToShoppingCart(item.productId, item.count)
addIssue ==
  /\ bPc = "loop"
  /\ bIdx <= Len(bItems)
  /\ bCalls' = Append(bCalls, [op |-> "addProductToShoppingCart",
                               productId |-> bItems[bIdx].productId,
                               count |-> bItems[bIdx].count,
                               outcome |-> "pending"])
  /\ bPc' = "awaitAdd"
  /\ UNCHANGED <<bTransport, bItems, bIdx, bResults, bCart, bResponse>>

\* the add resolves: results.push({productId, count, success: true})
addResolves ==
  /\ bPc = "awaitAdd"
  /\ bCart' = [bCart EXCEPT ![bItems[bIdx].productId] = @ + bItems[bIdx].count]
  /\ bResults' = Append(bResults, [productId |-> bItems[bIdx].productId,
                                   count |-> bItems[bIdx].count,
                                   success |-> TRUE])
  /\ bCalls' = settled(bCalls, "resolved")
  /\ bIdx' = bIdx + 1
  /\ bPc' = "loop"
  /\ UNCHANGED <<bTransport, bItems, bResponse>>

\* the loop gives up at the first failing add
addRejects_abortsLoop ==
  /\ bPc = "awaitAdd"
  /\ bResults' = Append(bResults, [productId |-> bItems[bIdx].productId,
                                   count |-> bItems[bIdx].count,
                                   success |-> FALSE,
                                   error |-> "add failed"])
  /\ bCalls' = settled(bCalls, "rejected")
  /\ bIdx' = Len(bItems) + 1
  /\ bPc' = "loop"
  /\ UNCHANGED <<bTransport, bItems, bCart, bResponse>>

\* the add rejects: results.push({productId, count, success: false, error})
addRejects ==
  /\ bPc = "awaitAdd"
  /\ bResults' = Append(bResults, [productId |-> bItems[bIdx].productId,
                                   count |-> bItems[bIdx].count,
                                   success |-> FALSE,
                                   error |-> "add failed"])
  /\ bCalls' = settled(bCalls, "rejected")
  /\ bIdx' = bIdx + 1
  /\ bPc' = "loop"
  /\ UNCHANGED <<bTransport, bItems, bCart, bResponse>>

\* after the loop: picnicClient.getShoppingCart()
cartIssue ==
  /\ bPc = "loop"
  /\ bIdx > Len(bItems)
  /\ bCalls' = Append(bCalls, [op |-> "getShoppingCart", outcome |-> "pending"])
  /\ bPc' = "awaitCart"
  /\ UNCHANGED <<bTransport, bItems, bIdx, bResults, bCart, bResponse>>

\* the cart is read back: the aggregate is returned
cartResolves ==
  /\ bPc = "awaitCart"
  /\ bResponse' = aggregateResponse(bResults, bCart)
  /\ bCalls' = settled(bCalls, "resolved")
  /\ bPc' = "done"
  /\ UNCHANGED <<bTransport, bItems, bIdx, bResults, bCart>>

\* getShoppingCart rejects: the error leaves the case and reaches the outer catch
cartRejects ==
  /\ bPc = "awaitCart"
  /\ bResponse' = errorResponse(bTransport, "cart unavailable")
  /\ bCalls' = settled(bCalls, "rejected")
  /\ bPc' = "done"
  /\ UNCHANGED <<bTransport, bItems, bIdx, bResults, bCart>>

\* ------------------------------------------ get_order_history (MCP server)
DeliveryStatuses == {"COMPLETED", "CURRENT", "CANCELLED"}

\* what getDeliveries can return: delivery k has id k and any status
DeliveryLists ==
  UNION {[1..n -> {[id |-> k, status |-> st] :
                     k \in 1..MaxDeliveries, st \in DeliveryStatuses}] :
         n \in 0..MaxDeliveries}

Deliveries == {d \in DeliveryLists : \A k \in 1..Len(d) : d[k].id = k}

\* the limits a caller passes: z.number() accepts any number
Limits == (0 - 1)..MaxLimit

\* arguments as sent by a caller: filter and limit are both optional
OrderHistoryArgs ==
  {<<>>}
  \cup {[filter |-> f] : f \in {"COMPLETED", "CURRENT", "ALL"}}
  \cup {[limit |-> l] : l \in Limits}
  \cup {[filter |-> f, limit |-> l] : f \in {"COMPLETED", "CURRENT", "ALL"},
                                     l \in Limits}

DefaultLimit == 50

\* GetOrderHistorySchema.parse: the defaults of the schema
GetOrderHistorySchema(args) ==
  [filter |-> IF "filter" \in DOMAIN args THEN args.filter ELSE "COMPLETED",
   limit  |-> IF "limit" \in DOMAIN args THEN args.limit ELSE DefaultLimit]

\* Array.prototype.slice(0, end): a negative end counts from the end
SliceFromStart(s, end) ==
  LET n    == Len(s)
      last == IF end < 0 THEN (IF n + end > 0 THEN n + end ELSE 0)
              ELSE (IF end < n THEN end ELSE n)
  IN SubSeq(s, 1, last)

VARIABLES
  \* the transport the tool was called on: "stdio" or "http"
  oTransport,
  \* position in the handler: "idle", "awaitDeliveries", "done"
  oPc,
  \* the parsed arguments {filter, limit}
  oArgs,
  \* what getDeliveries returned
  oDeliveries,
  \* the response of the tool
  oResponse

orderVars == <<oTransport, oPc, oArgs, oDeliveries, oResponse>>

InitOrders ==
  /\ oTransport = "stdio"
  /\ oPc = "idle"
  /\ oArgs = GetOrderHistorySchema(<<>>)
  /\ oDeliveries = <<>>
  /\ oResponse = NoResponse

\* the JSON the handler returns
orderHistoryResponse(filter, limit, allDeliveries) ==
  LET deliveries == IF filter # "ALL"
                    THEN FilterSeq(allDeliveries, LAMBDA d : d.status = filter)
                    ELSE allDeliveries
      limitedDeliveries == SliceFromStart(deliveries, limit)
  IN [shape    |-> "orders",
      total    |-> Len(deliveries),
      returned |-> Len(limitedDeliveries),
      filter   |-> filter,
      orders   |-> limitedDeliveries]

\* a tool call with valid arguments: parse, then getDeliveries is awaited
orderHistoryCall(transport, args) ==
  /\ oPc = "idle"
  /\ oTransport' = transport
  /\ oArgs' = GetOrderHistorySchema(args)
  /\ oPc' = "awaitDeliveries"
  /\ UNCHANGED <<oDeliveries, oResponse>>

\* a tool call whose arguments the schema rejects: parse throws
orderHistoryCallInvalid(transport) ==
  /\ oPc = "idle"
  /\ oTransport' = transport
  /\ oResponse' = errorResponse(transport, "ZodError")
  /\ oPc' = "done"
  /\ UNCHANGED <<oArgs, oDeliveries>>

\* getDeliveries resolves: filter, slice, respond
deliveriesResolve(allDeliveries) ==
  /\ oPc = "awaitDeliveries"
  /\ oDeliveries' = allDeliveries
  /\ oResponse' = orderHistoryResponse(oArgs.filter, oArgs.limit, allDeliveries)
  /\ oPc' = "done"
  /\ UNCHANGED <<oTransport, oArgs>>

\* getDeliveries rejects: the outer catch answers
deliveriesReject ==
  /\ oPc = "awaitDeliveries"
  /\ oResponse' = errorResponse(oTransport, "deliveries unavailable")
  /\ oPc' = "done"
  /\ UNCHANGED <<oTransport, oArgs, oDeliveries>>

\* ---------------------------------- auth store, AuthGuard and PinSetup
\* A typed value is a sequence of characters; "a" stands for any non-digit.
Digits == {"1", "2"}

RECURSIVE SeqsOfLen(_, _)
\* the sequences over S of length exactly n
SeqsOfLen(S, n) ==
  IF n = 0 THEN {<<>>}
  ELSE {Append(t, x) : t \in SeqsOfLen(S, n - 1), x \in S}

\* what the PIN field can be changed to: up to MaxTyped characters typed or
\* pasted, with a second digit in the first position only
TypedValues ==
  UNION {SeqsOfLen({"1", "a"}, n) : n \in 0..MaxTyped}
  \cup UNION {{<<"2">> \o t : t \in SeqsOfLen({"1"}, n)} : n \in 0..(MaxTyped - 1)}

PinMaxLength == 6
PinMinLength == 4

\* the value is cut to 6 characters without removing the non-digits
cleaned_keepsNonDigits(value) ==
  SubSeq(value, 1, IF Len(value) < PinMaxLength THEN Len(value) ELSE PinMaxLength)

\* value.replace(/\D/g, '').slice(0, 6)
cleaned(value) ==
  LET digits == SelectSeq(value, LAMBDA ch : ch \in Digits)
  IN SubSeq(digits, 1, IF Len(digits) < PinMaxLength THEN Len(digits)
                       ELSE PinMaxLength)

VARIABLES
  \* useAuthStore state
  isAuthenticated, authIsLoading, user, needsPinSetup, authError,
  \* whether AuthGuard's mount effect has run in this page load
  mounted,
  \* the checkAuth / setupPin / verifyPin call in flight, "none" without one
  authPending,
  \* the number of logout calls in flight
  logoutPending,
  \* whether a server answer since the page was loaded and since the last
  \* logout ended said the user is authenticated (authenticated, success or
  \* valid)
  serverConfirmed,
  \* the store call that ended in the step just taken and its answer:
  \* "positive", "negative" or "error"; op "none" when none ended
  authSettled,
  \* PinSetup component state
  pin, confirmPin, pinStep,
  \* PinEntry component state: its `pin`
  entryPin,
  \* the setupPin call made by the step just taken
  setupPinCall

authVars == <<isAuthenticated, authIsLoading, user, needsPinSetup, authError,
              mounted, authPending, logoutPending, serverConfirmed,
              authSettled, pin, confirmPin, pinStep, entryPin, setupPinCall>>

NothingSettled == [op |-> "none", answer |-> "none"]
NoSetupPinCall == [called |-> FALSE, pin |-> <<>>]

\* what AuthGuard renders
AuthGuard ==
  IF authIsLoading THEN "loading"
  ELSE IF needsPinSetup THEN "PinSetup"
  ELSE IF ~isAuthenticated THEN "PinEntry"
  ELSE "children"

InitAuth ==
  /\ isAuthenticated = FALSE
  /\ authIsLoading = TRUE
  /\ user = "none"
  /\ needsPinSetup = FALSE
  /\ authError = "none"
  /\ mounted = FALSE
  /\ authPending = "none"
  /\ logoutPending = 0
  /\ serverConfirmed = FALSE
  /\ authSettled = NothingSettled
  /\ pin = <<>>
  /\ confirmPin = <<>>
  /\ pinStep = "enter"
  /\ entryPin = <<>>
  /\ setupPinCall = NoSetupPinCall

\* PinSetup keeps its state while it stays rendered and starts afresh when
\* AuthGuard renders something else
pinSetupRemounts ==
  IF AuthGuard = "PinSetup" /\ AuthGuard' = "PinSetup"
  THEN UNCHANGED <<pin, confirmPin, pinStep>>
  ELSE pin' = <<>> /\ confirmPin' = <<>> /\ pinStep' = "enter"

\* PinEntry likewise
pinEntryRemounts ==
  IF AuthGuard = "PinEntry" /\ AuthGuard' = "PinEntry"
  THEN UNCHANGED entryPin
  ELSE entryPin' = <<>>

\* what persist stores and merges into the initial state at the next page
\* load: partialize keeps isAuthenticated and user, and JSON drops an undefined
\* user, so that the initial null stays
rehydrated ==
  [isAuthenticated |-> isAuthenticated,
   user |-> IF user = "undefined" THEN "none" ELSE user]

\* the page comes up with isLoading false
pageLoad_notLoading ==
  /\ authIsLoading' = FALSE
  /\ needsPinSetup' = FALSE
  /\ authError' = "none"
  /\ mounted' = FALSE
  /\ authPending' = "none"
  /\ logoutPending' = 0
  /\ serverConfirmed' = FALSE
  /\ authSettled' = NothingSettled
  /\ setupPinCall' = NoSetupPinCall
  /\ pin' = <<>> /\ confirmPin' = <<>> /\ pinStep' = "enter"
  /\ entryPin' = <<>>
  /\ isAuthenticated' = rehydrated.isAuthenticated
  /\ user' = rehydrated.user

\* the page is loaded again (also window.location.reload() of the 401
\* interceptor): the store starts from its initial state with the persisted
\* isAuthenticated and user; requests of the old page are gone
pageLoad ==
  /\ authIsLoading' = TRUE
  /\ needsPinSetup' = FALSE
  /\ authError' = "none"
  /\ mounted' = FALSE
  /\ authPending' = "none"
  /\ logoutPending' = 0
  /\ serverConfirmed' = FALSE
  /\ authSettled' = NothingSettled
  /\ setupPinCall' = NoSetupPinCall
  /\ pin' = <<>> /\ confirmPin' = <<>> /\ pinStep' = "enter"
  /\ entryPin' = <<>>
  /\ isAuthenticated' = rehydrated.isAuthenticated
  /\ user' = rehydrated.user

\* AuthGuard's effect: checkAuth() sets isLoading and awaits getAuthStatus
checkAuth ==
  /\ ~mounted
  /\ mounted' = TRUE
  /\ authIsLoading' = TRUE
  /\ authError' = "none"
  /\ authPending' = "checkAuth"
  /\ authSettled' = NothingSettled
  /\ setupPinCall' = NoSetupPinCall
  /\ UNCHANGED <<isAuthenticated, user, needsPinSetup, logoutPending,
                 serverConfirmed>>
  /\ pinSetupRemounts
  /\ pinEntryRemounts

\* getAuthStatus answers
checkAuthAnswers(authenticated, statusUser, needs_pin_setup) ==
  /\ authPending = "checkAuth"
  /\ isAuthenticated' = authenticated
  /\ user' = statusUser
  /\ needsPinSetup' = needs_pin_setup
  /\ authIsLoading' = FALSE
  /\ authPending' = "none"
  /\ serverConfirmed' = (serverConfirmed \/ authenticated)
  /\ authSettled' = [op |-> "checkAuth",
                      answer |-> IF authenticated THEN "positive" ELSE "negative"]
  /\ setupPinCall' = NoSetupPinCall
  /\ UNCHANGED <<authError, mounted, logoutPending>>
  /\ pinSetupRemounts
  /\ pinEntryRemounts

\* getAuthStatus rejects: the catch block
checkAuthFails ==
  /\ authPending = "checkAuth"
  /\ isAuthenticated' = FALSE
  /\ user' = "none"
  /\ needsPinSetup' = TRUE
  /\ authIsLoading' = FALSE
  /\ authPending' = "none"
  /\ authSettled' = [op |-> "checkAuth", answer |-> "error"]
  /\ setupPinCall' = NoSetupPinCall
  /\ UNCHANGED <<authError, mounted, logoutPending, serverConfirmed>>
  /\ pinSetupRemounts
  /\ pinEntryRemounts

\* a PinSetup step that leaves the store alone
pinSetupOnly ==
  /\ AuthGuard = "PinSetup"
  /\ authSettled' = NothingSettled
  /\ UNCHANGED <<isAuthenticated, authIsLoading, user, needsPinSetup, mounted,
                 authPending, logoutPending, serverConfirmed, entryPin>>

\* the PIN field changes to `value`
handlePinChange(value) ==
  /\ pinSetupOnly
  /\ IF pinStep = "enter"
     THEN pin' = cleaned(value) /\ UNCHANGED confirmPin
     ELSE confirmPin' = cleaned(value) /\ UNCHANGED pin
  /\ authError' = "none"
  /\ setupPinCall' = NoSetupPinCall
  /\ UNCHANGED pinStep

\* the form is submitted in the enter step
handleContinue ==
  /\ pinSetupOnly
  /\ pinStep = "enter"
  /\ pinStep' = IF Len(pin) >= PinMinLength THEN "confirm" ELSE pinStep
  /\ setupPinCall' = NoSetupPinCall
  /\ UNCHANGED <<pin, confirmPin, authError>>

\* the "Terug" button of the confirm step
Terug ==
  /\ pinSetupOnly
  /\ pinStep = "confirm"
  /\ pinStep' = "enter"
  /\ confirmPin' = <<>>
  /\ setupPinCall' = NoSetupPinCall
  /\ UNCHANGED <<pin, authError>>

\* the form is submitted in the confirm step: setupPin(pin) when the entries
\* are equal, nothing otherwise
handleSubmitPin ==
  /\ AuthGuard = "PinSetup"
  /\ pinStep = "confirm"
  /\ authSettled' = NothingSettled
  /\ IF pin # confirmPin
     THEN /\ setupPinCall' = NoSetupPinCall
          /\ UNCHANGED <<isAuthenticated, authIsLoading, user, needsPinSetup,
                         authError, mounted, authPending, logoutPending,
                         serverConfirmed, pin, confirmPin, pinStep,
                         entryPin>>
     ELSE /\ setupPinCall' = [called |-> TRUE, pin |-> pin]
          /\ authIsLoading' = TRUE
          /\ authError' = "none"
          /\ authPending' = "setupPin"
          /\ UNCHANGED <<isAuthenticated, user, needsPinSetup, mounted,
                         logoutPending, serverConfirmed>>
          /\ pinSetupRemounts
          /\ pinEntryRemounts

\* /auth/setup-pin answers
setupPinAnswers(success) ==
  /\ authPending = "setupPin"
  /\ IF success
     THEN /\ isAuthenticated' = TRUE
          /\ needsPinSetup' = FALSE
          /\ authIsLoading' = FALSE
     ELSE UNCHANGED <<isAuthenticated, needsPinSetup, authIsLoading>>
  /\ authPending' = "none"
  /\ serverConfirmed' = (serverConfirmed \/ success)
  /\ authSettled' = [op |-> "setupPin",
                      answer |-> IF success THEN "positive" ELSE "negative"]
  /\ setupPinCall' = NoSetupPinCall
  /\ UNCHANGED <<user, authError, mounted, logoutPending>>
  /\ pinSetupRemounts
  /\ pinEntryRemounts

\* what a rejected request throws: an Error with its message (what axios
\* rejects with), or a value that is not an Error
Rejections ==
  {[isError |-> TRUE, message |-> "Network Error"],
   [isError |-> FALSE, message |-> "none"]}

\* /auth/setup-pin rejects: the catch block
setupPinFails(rejection) ==
  /\ authPending = "setupPin"
  /\ authError' = IF rejection.isError THEN rejection.message
                  ELSE "Failed to set up PIN"
  /\ authIsLoading' = FALSE
  /\ authPending' = "none"
  /\ authSettled' = [op |-> "setupPin", answer |-> "error"]
  /\ setupPinCall' = NoSetupPinCall
  /\ UNCHANGED <<isAuthenticated, user, needsPinSetup, mounted, logoutPending,
                 serverConfirmed>>
  /\ pinSetupRemounts
  /\ pinEntryRemounts

PIN_LENGTH == 4

\* value.replace(/\D/g, '').slice(0, PIN_LENGTH)
entryValue(value) ==
  LET digits == SelectSeq(value, LAMBDA ch : ch \in Digits)
  IN SubSeq(digits, 1, IF Len(digits) < PIN_LENGTH THEN Len(digits)
                       ELSE PIN_LENGTH)

\* the store's clearError() called by a PinEntry handler that leaves the
\* PIN at `next`
clearError(next) ==
  /\ authError' = "none"
  /\ entryPin' = next
  /\ authSettled' = NothingSettled
  /\ setupPinCall' = NoSetupPinCall
  /\ UNCHANGED <<isAuthenticated, authIsLoading, user, needsPinSetup, mounted,
                 authPending, logoutPending, serverConfirmed, pin, confirmPin,
                 pinStep>>

\* PinEntry's effect submits a complete PIN: verifyPin(pin)
verifyPin ==
  /\ AuthGuard = "PinEntry"
  /\ authIsLoading' = TRUE
  /\ authError' = "none"
  /\ authPending' = "verifyPin"
  /\ authSettled' = NothingSettled
  /\ setupPinCall' = NoSetupPinCall
  /\ UNCHANGED <<isAuthenticated, user, needsPinSetup, mounted, logoutPending,
                 serverConfirmed>>
  /\ pinSetupRemounts
  /\ pinEntryRemounts

\* setPin(next) and clearError() in a PinEntry handler, then the effect on
\* [pin], which submits when the PIN changed to a complete one
setPin(next) ==
  IF next # entryPin /\ Len(next) = PIN_LENGTH
  THEN verifyPin
  ELSE clearError(next)

\* a key of the numpad
handleKeyPress(digit) ==
  /\ AuthGuard = "PinEntry"
  /\ Len(entryPin) < PIN_LENGTH
  /\ setPin(Append(entryPin, digit))

\* the delete key, disabled while the PIN is empty
handleDelete ==
  /\ AuthGuard = "PinEntry"
  /\ Len(entryPin) > 0
  /\ setPin(SubSeq(entryPin, 1, Len(entryPin) - 1))

\* the hidden input changes to `value`
handleInputChange(value) ==
  /\ AuthGuard = "PinEntry"
  /\ setPin(entryValue(value))

\* /auth/verify-pin answers; resultUser is the answer's optional user,
\* "undefined" when it has none
verifyPinAnswers(valid, resultUser) ==
  /\ authPending = "verifyPin"
  /\ IF valid
     THEN /\ isAuthenticated' = TRUE
          /\ user' = resultUser
          /\ UNCHANGED authError
     ELSE /\ authError' = "Invalid PIN"
          /\ UNCHANGED <<isAuthenticated, user>>
  /\ authIsLoading' = FALSE
  /\ authPending' = "none"
  /\ serverConfirmed' = (serverConfirmed \/ valid)
  /\ authSettled' = [op |-> "verifyPin",
                      answer |-> IF valid THEN "positive" ELSE "negative"]
  /\ setupPinCall' = NoSetupPinCall
  /\ UNCHANGED <<needsPinSetup, mounted, logoutPending>>
  /\ pinSetupRemounts
  /\ pinEntryRemounts

\* /auth/verify-pin rejects: the catch block
verifyPinFails(rejection) ==
  /\ authPending = "verifyPin"
  /\ authError' = IF rejection.isError THEN rejection.message
                  ELSE "Failed to verify PIN"
  /\ authIsLoading' = FALSE
  /\ authPending' = "none"
  /\ authSettled' = [op |-> "verifyPin", answer |-> "error"]
  /\ setupPinCall' = NoSetupPinCall
  /\ UNCHANGED <<isAuthenticated, user, needsPinSetup, mounted, logoutPending,
                 serverConfirmed>>
  /\ pinSetupRemounts
  /\ pinEntryRemounts

\* "Uitloggen" on the settings page, confirmed: logout() awaits /auth/logout
logout ==
  /\ AuthGuard = "children"
  /\ logoutPending < MaxInFlight
  /\ logoutPending' = logoutPending + 1
  /\ authSettled' = NothingSettled
  /\ setupPinCall' = NoSetupPinCall
  /\ UNCHANGED <<isAuthenticated, authIsLoading, user, needsPinSetup, authError,
                 mounted, authPending, serverConfirmed>>
  /\ pinSetupRemounts
  /\ pinEntryRemounts

\* /auth/logout resolves (ok) or rejects: the finally block either way
logoutSettles(ok) ==
  /\ logoutPending > 0
  /\ logoutPending' = logoutPending - 1
  /\ isAuthenticated' = FALSE
  /\ user' = "none"
  /\ authSettled' = [op |-> "logout",
                      answer |-> IF ok THEN "positive" ELSE "error"]
  /\ setupPinCall' = NoSetupPinCall
  /\ serverConfirmed' = FALSE
  /\ UNCHANGED <<authIsLoading, needsPinSetup, authError, mounted, authPending>>
  /\ pinSetupRemounts
  /\ pinEntryRemounts

\* ------------------------------------------------ confidence tiers (UI)
MaxConfidence == 100

VARIABLES
  \* a confidence shown in the review list, and what was rendered for it
  uiConfidence, uiRendered

tierVars == <<uiConfidence, uiRendered>>

NotRendered == [rendered |-> FALSE]

InitTier ==
  /\ uiConfidence \in 0..MaxConfidence
  /\ uiRendered = NotRendered

\* The review list is drawn for a response of one found record whose best
\* candidate has confidence uiConfidence, with n candidates, after the
\* chevron was clicked or not. The card has the tier background only when
\* the record needs review; the badge is drawn for every found record; the
\* candidate line with its colour is inside the alternatives panel, which is
\* open for the record that onSuccess expanded or the chevron opened; no
\* label is drawn. "none" stands for what is not drawn.
renderRow(n, chevron) ==
  /\ uiRendered = NotRendered
  /\ LET candidates == SubSeq(<<[id |-> "p1", confidence |-> uiConfidence],
                                [id |-> "p2", confidence |-> 0]>>, 1, n)
         match == classify(1, candidates)
         firstUncertain == FindIndex(<<match>>, LAMBDA m : m.needs_review)
         hasChevron == match.status # "not_found" /\ Len(match.matches) > 1
         expanded == IF chevron
                     THEN (IF firstUncertain = 1 THEN NoIndex ELSE 1)
                     ELSE firstUncertain
         panelOpen == expanded = 1 /\ Len(match.matches) > 0
     IN /\ chevron => hasChevron
        /\ uiRendered' =
             [rendered |-> TRUE,
              status   |-> match.status,
              color    |-> IF panelOpen
                           THEN getConfidenceColor(match.matches[1].confidence)
                           ELSE "none",
              bg       |-> IF match.needs_review
                           THEN getConfidenceBg(match.best_confidence)
                           ELSE "none",
              label    |-> "none",
              badge    |-> IF match.status # "not_found"
                           THEN confidenceBadge(match.best_confidence)
                           ELSE [cls |-> "none", icon |-> "none"]]
  /\ UNCHANGED uiConfidence

\* ------------------------------------------------------- specifications
vars == <<pageVars, bulkVars, orderVars, cartVars, authVars, tierVars>>

\* every confidence can be rendered
Init == InitPage /\ InitBulk /\ InitOrders /\ InitCart /\ InitAuth /\ InitTier

\* the page and the server after construction, nothing rendered
InitSession ==
  /\ InitPage /\ InitBulk /\ InitOrders /\ InitCart /\ InitAuth
  /\ uiConfidence = 0 /\ uiRendered = NotRendered

\* a step of the page leaves the server and the rendering alone, and so on
pageOnly == UNCHANGED <<bulkVars, orderVars, cartVars, authVars, tierVars>>
bulkOnly == UNCHANGED <<pageVars, orderVars, cartVars, authVars, tierVars>>
orderOnly == UNCHANGED <<pageVars, bulkVars, cartVars, authVars, tierVars>>
\* the step of the page that also calls the cart store (fetchCart in onSuccess)
pageAndCart == UNCHANGED <<bulkVars, orderVars, authVars, tierVars>>
cartOnly == UNCHANGED <<pageVars, bulkVars, orderVars, authVars, tierVars>>
authOnly == UNCHANGED <<pageVars, bulkVars, orderVars, cartVars, tierVars>>
tierOnly == UNCHANGED <<pageVars, bulkVars, orderVars, cartVars, authVars>>

NextPage ==
  \/ pageOnly /\ \E m \in {"url", "text"} : setInputMode(m)
  \/ pageOnly /\ \E v \in InputValues : setUrlInput(v)
  \/ pageOnly /\ \E v \in InputValues : setTextInput(v)
  \/ pageOnly /\ handleSubmit
  \/ pageOnly /\ parseFails
  \/ pageOnly /\ \E title \in Titles, n \in 0..MaxIngredients : parseSucceeds(title, n)
  \/ pageOnly /\ \E k \in 1..Len(parsedIngredients), outcome \in SearchOutcomes :
                   searchCompletes(k, outcome)
  \/ pageOnly /\ \E counted \in BOOLEAN : matchSucceeds(counted)
  \/ pageOnly /\ matchFails
  \/ pageOnly /\ \E i \in 1..Len(matches) : toggleSelection(i)
  \/ pageOnly /\ \E i \in 1..Len(matches) :
                   \E p \in 1..Len(matches[i].matches) : selectProduct(i, p)
  \/ pageOnly /\ \E i \in 1..Len(matches) : toggleExpanded(i)
  \/ pageOnly /\ commitClick
  \/ pageAndCart /\ commitSucceeds
  \/ cartOnly /\ \E k \in 1..Len(cartCalls), c \in ServerCarts : callResolves(k, c)
  \/ cartOnly /\ \E k \in 1..Len(cartCalls) : callRejects(k)
  \/ pageOnly /\ commitFails
  \/ pageOnly /\ Opnieuw

NextBulk ==
  \/ bulkOnly /\ \E t \in {"stdio", "http"}, items \in SeqsUpTo(ItemInputs, MaxItems) :
                   bulkCall(t, items)
  \/ bulkOnly /\ \E t \in {"stdio", "http"} : bulkCallInvalid(t)
  \/ bulkOnly /\ addIssue
  \/ bulkOnly /\ addResolves
  \/ bulkOnly /\ addRejects
  \/ bulkOnly /\ cartIssue
  \/ bulkOnly /\ cartResolves
  \/ bulkOnly /\ cartRejects

NextOrders ==
  \/ orderOnly /\ \E t \in {"stdio", "http"}, args \in OrderHistoryArgs :
                    orderHistoryCall(t, args)
  \/ orderOnly /\ \E t \in {"stdio", "http"} : orderHistoryCallInvalid(t)
  \/ orderOnly /\ \E d \in Deliveries : deliveriesResolve(d)
  \/ orderOnly /\ deliveriesReject

NextCart ==
  \/ cartOnly /\ fetchCart
  \/ cartOnly /\ addItem
  \/ cartOnly /\ removeItem
  \/ cartOnly /\ clearCart
  \/ cartOnly /\ bulkAdd
  \/ cartOnly /\ \E k \in 1..Len(cartCalls), c \in ServerCarts : callResolves(k, c)
  \/ cartOnly /\ \E k \in 1..Len(cartCalls) : callRejects(k)

NextAuth ==
  \/ authOnly /\ pageLoad
  \/ authOnly /\ checkAuth
  \/ authOnly /\ \E authenticated \in BOOLEAN, statusUser \in {"none", "user"},
                     needs_pin_setup \in BOOLEAN :
                     checkAuthAnswers(authenticated, statusUser, needs_pin_setup)
  \/ authOnly /\ checkAuthFails
  \/ authOnly /\ \E value \in TypedValues : handlePinChange(value)
  \/ authOnly /\ handleContinue
  \/ authOnly /\ Terug
  \/ authOnly /\ handleSubmitPin
  \/ authOnly /\ \E success \in BOOLEAN : setupPinAnswers(success)
  \/ authOnly /\ \E rejection \in Rejections : setupPinFails(rejection)
  \/ authOnly /\ \E digit \in Digits : handleKeyPress(digit)
  \/ authOnly /\ handleDelete
  \/ authOnly /\ \E value \in TypedValues : handleInputChange(value)
  \/ authOnly /\ \E valid \in BOOLEAN, resultUser \in {"undefined", "user"} :
                     verifyPinAnswers(valid, resultUser)
  \/ authOnly /\ \E rejection \in Rejections : verifyPinFails(rejection)
  \/ authOnly /\ logout
  \/ authOnly /\ \E ok \in BOOLEAN : logoutSettles(ok)

NextTier == tierOnly /\ \E n \in {1, 2}, chevron \in BOOLEAN : renderRow(n, chevron)

\* the recipe-import session of RecipesPage
SpecPage == InitSession /\ [][NextPage]_vars

\* one bulk_add_to_cart invocation
SpecBulk == InitSession /\ [][NextBulk]_vars

\* the auth store behind AuthGuard, with PinSetup
SpecAuth == InitSession /\ [][NextAuth]_vars

\* the cart store with overlapping calls
SpecCart == InitSession /\ [][NextCart]_vars

\* one get_order_history invocation
SpecOrders == InitSession /\ [][NextOrders]_vars

\* the session when every request in flight is eventually answered
SpecPageFair ==
  /\ InitSession
  /\ [][NextPage]_vars
  /\ WF_vars(pageOnly /\ (parseFails
                           \/ \E title \in Titles, n \in 0..MaxIngredients :
                                 parseSucceeds(title, n)))
  /\ WF_vars(pageOnly /\ \E k \in 1..Len(parsedIngredients),
                             outcome \in SearchOutcomes :
                             searchCompletes(k, outcome))
  /\ WF_vars(pageOnly /\ ((\E counted \in BOOLEAN : matchSucceeds(counted))
                           \/ matchFails))
  /\ WF_vars((pageAndCart /\ commitSucceeds) \/ (pageOnly /\ commitFails))
  /\ WF_vars(cartOnly /\ \E k \in 1..Len(cartCalls) :
                           \/ \E c \in ServerCarts : callResolves(k, c)
                           \/ callRejects(k))

\* the rendering of one confidence value
SpecTier == Init /\ [][NextTier]_vars

\* ================================================================ claims
\* the addProductToShoppingCart requests issued so far, in order
AddCalls == SelectSeq(bCalls, LAMBDA c : c.op = "addProductToShoppingCart")

RECURSIVE QuantityAdded(_, _)
\* the quantity of product p added by the resolved requests of `calls`
QuantityAdded(calls, p) ==
  IF calls = <<>> THEN 0
  ELSE QuantityAdded(Tail(calls), p)
       + (IF Head(calls).op = "addProductToShoppingCart"
             /\ Head(calls).productId = p /\ Head(calls).outcome = "resolved"
          THEN Head(calls).count ELSE 0)

\* a transition that issues the add-to-cart request of the page
CommitIssued == commitState = "idle" /\ commitState' = "pending"

\* C1: the commit is issued only in review, and review is entered only from
\* matching, when the match response arrives.
C1_NoTransitionSkipsReview ==
  [][ /\ (CommitIssued => step = "review")
      /\ (step # "review" /\ step' = "review"
            => step = "matching" /\ parseState = "matching") ]_vars

\* C2: every item is attempted exactly once, in list order, without retry;
\* a failing add stops nothing and no successful add is undone.
C2_EveryItemAttemptedOnce ==
  /\ Len(AddCalls) <= Len(bItems)
  /\ \A k \in 1..Len(AddCalls) :
       /\ AddCalls[k].productId = bItems[k].productId
       /\ AddCalls[k].count = bItems[k].count
  /\ (bPc \in {"awaitCart", "done"} => Len(AddCalls) = Len(bItems))
  /\ \A k \in 1..Len(bCalls) : bCalls[k].op \in {"addProductToShoppingCart", "getShoppingCart"}
  /\ \A p \in Products : bCart[p] = QuantityAdded(bCalls, p)

\* three items, the first add rejected and the later two resolved
C2_Witness ==
  /\ bPc = "done"
  /\ Len(bItems) = 3
  /\ Len(AddCalls) = 3
  /\ AddCalls[1].outcome = "rejected"
  /\ AddCalls[2].outcome = "resolved"
  /\ AddCalls[3].outcome = "resolved"
  /\ bCart[bItems[2].productId] > 0

\* C3: the aggregate accounts for every item: one result per item in input
\* order with its productId, success false exactly for the rejected adds,
\* added and failed count them, added + failed = number of items.
C3_ResultAccountsForEveryItem ==
  bResponse.shape = "result" =>
    /\ Len(bResponse.results) = Len(bItems)
    /\ \A k \in 1..Len(bItems) :
         /\ bResponse.results[k].productId = bItems[k].productId
         /\ bResponse.results[k].success = (AddCalls[k].outcome = "resolved")
         /\ ~bResponse.results[k].success = (AddCalls[k].outcome = "rejected")
    /\ bResponse.added = Cardinality({k \in 1..Len(AddCalls) : AddCalls[k].outcome = "resolved"})
    /\ bResponse.failed = Cardinality({k \in 1..Len(AddCalls) : AddCalls[k].outcome = "rejected"})
    /\ bResponse.added + bResponse.failed = Len(bItems)

\* one failure and two successes: added = 2, failed = 1, the failed entry
\* names the failing product
C3_Witness ==
  /\ bResponse.shape = "result"
  /\ Len(bItems) = 3
  /\ bResponse.added = 2
  /\ bResponse.failed = 1
  /\ AddCalls[2].outcome = "rejected"
  /\ ~bResponse.results[2].success
  /\ bResponse.results[2].productId = bItems[2].productId

\* C4: once an add has been attempted the call answers with the aggregate,
\* never with an error-shaped result, whichever collaborator calls fail.
C4_FailuresAlwaysAbsorbed ==
  (bPc = "done" /\ Len(AddCalls) > 0) => bResponse.shape = "result"

\* the indices of the records of ms that have a selected product
SelectedIndices(ms) == {i \in 1..Len(ms) : ms[i].selected # Undefined}

\* payload is the subsequence of ms at the selected indices, in order
IsSelectedSubsequence(payload, ms) ==
  /\ Len(payload) = Cardinality(SelectedIndices(ms))
  /\ \A i \in SelectedIndices(ms) :
       payload[Cardinality({j \in SelectedIndices(ms) : j <= i})] = ms[i]

\* C5: the payload of a commit is, when it is issued, the subsequence of the
\* records with a selected product, in batch order.
C5_CommitSendsSelectedOnly ==
  [][CommitIssued => IsSelectedSubsequence(addToCartRequest', matches)]_vars

\* a commit just issued that left out a deselected record
C5_Witness ==
  /\ step = "review"
  /\ commitState = "pending"
  /\ Len(matches) = 2
  /\ Len(addToCartRequest) = 1
  /\ matches[1].selected = Undefined
  /\ Len(matches[1].matches) > 0
  /\ addToCartRequest[1] = matches[2]

\* C6: on entry into review every record with candidates has its first
\* candidate selected, whatever its tier, and every record without has none.
C6_FirstCandidatePreselected ==
  [][step # "review" /\ step' = "review" =>
       \A i \in 1..Len(matches') :
         matches'[i].selected = IF Len(matches'[i].matches) > 0
                                THEN matches'[i].matches[1] ELSE Undefined]_vars

\* a reviewed batch with a pre-selected uncertain record and a not_found one
C6_Witness ==
  /\ step = "review"
  /\ Len(matches) = 2
  /\ matches[1].status = "uncertain"
  /\ matches[1].selected = matches[1].matches[1]
  /\ matches[2].status = "not_found"
  /\ matches[2].selected = Undefined

\* the tier of a candidate list under the fixed thresholds
TierOf(candidates) ==
  IF Len(candidates) = 0 THEN "not_found"
  ELSE IF candidates[1].confidence >= 70 THEN "matched"
  ELSE IF candidates[1].confidence >= 40 THEN "partial"
  ELSE "uncertain"

UiTier(green, yellow, red, v) ==
  IF v = green THEN "high" ELSE IF v = yellow THEN "medium"
  ELSE IF v = red THEN "low" ELSE "unknown"

\* C8: getConfidenceColor, getConfidenceBg, getConfidenceLabel and the badge
\* place a confidence in the high tier iff it is >= 0.7, medium iff
\* 0.4 <= c < 0.7, low iff c < 0.4, and whatever of them the review list
\* draws for a record agrees with its matched / partial / uncertain status.
C8_UiTiersAgree ==
  LET c == uiConfidence
      expected == IF c >= 70 THEN "high" ELSE IF c >= 40 THEN "medium" ELSE "low"
  IN /\ UiTier("text-green-600", "text-yellow-600", "text-red-600",
               getConfidenceColor(c)) = expected
     /\ UiTier("bg-green-50 border-green-200", "bg-yellow-50 border-yellow-200",
               "bg-red-50 border-red-200", getConfidenceBg(c)) = expected
     /\ UiTier("Zeker", "Controleer", "Onzeker", getConfidenceLabel(c)) = expected
     /\ uiRendered.rendered =>
          /\ UiTier("matched", "partial", "uncertain", uiRendered.status) = expected
          /\ UiTier("bg-green-100 text-green-700", "bg-yellow-100 text-yellow-700",
                    "bg-red-100 text-red-700", uiRendered.badge.cls) = expected
          /\ (uiRendered.badge.icon = "CheckCircle") = (expected = "high")
          /\ uiRendered.color # "none" =>
               UiTier("text-green-600", "text-yellow-600", "text-red-600",
                      uiRendered.color) = expected
          /\ uiRendered.bg # "none" =>
               UiTier("bg-green-50 border-green-200",
                      "bg-yellow-50 border-yellow-200",
                      "bg-red-50 border-red-200", uiRendered.bg) = expected

\* the upper boundary value has been rendered with its alternatives open:
\* green badge and candidate line, no review background
C8_Witness ==
  /\ uiRendered.rendered
  /\ uiConfidence = 70
  /\ uiRendered.badge.icon = "CheckCircle"
  /\ uiRendered.color = "text-green-600"
  /\ uiRendered.bg = "none"

\* a record with its selection blanked out
WithoutSelection(m) == [m EXCEPT !.selected = Undefined]

\* C9: a review action changes nothing of the batch but the selected field
\* of one record: same number and order of records, same ingredient,
\* candidates, status, best_confidence and needs_review.
C9_OnlySelectedReassigned ==
  [][step = "review" /\ step' = "review" =>
       /\ Len(matches') = Len(matches)
       /\ \A i \in 1..Len(matches) :
            /\ i <= Len(matches')
            /\ WithoutSelection(matches'[i]) = WithoutSelection(matches[i])
       /\ Cardinality({i \in 1..Len(matches) :
                         i <= Len(matches') /\ matches'[i] # matches[i]}) <= 1]_vars

\* selectProduct has chosen a second candidate and toggleSelection has
\* deselected another record
C9_Witness ==
  /\ step = "review"
  /\ Len(matches) = 2
  /\ Len(matches[1].matches) = 2
  /\ matches[1].selected = matches[1].matches[2]
  /\ Len(matches[2].matches) = 1
  /\ matches[2].selected = Undefined

\* C10: cancelling from review discards the batch and clears both inputs,
\* and issues no add-to-cart request.
C10_CancelDiscardsBatch ==
  [][(step = "review" /\ step' = "input"
        /\ ~(commitState = "pending" /\ commitState' = "idle")) =>
       /\ matches' = <<>>
       /\ needsReviewCount' = 0
       /\ expandedIndex' = NoIndex
       /\ urlInput' = ""
       /\ textInput' = ""
       /\ commitState' = commitState
       /\ addToCartRequest' = <<>>]_vars

\* cancelled while a commit was pending: back at an empty input form
C10_Witness ==
  /\ step = "input"
  /\ commitState = "pending"
  /\ parseState = "idle"
  /\ matches = <<>>
  /\ urlInput = ""
  /\ textInput = ""

\* the match response arrives in this step: the running onSuccess finishes
\* without an error toast
MatchResponseArrives ==
  parseState = "matching" /\ parseState' = "idle" /\ toast' = "none"

\* C11: the page holds match records only in the review step: in input and
\* in matching the list is empty (also while the match request is in
\* flight), and the step that enters review installs the whole response, one
\* record per parsed ingredient, at once.
C11_BatchOnlyInReview ==
  [][ /\ matches' # <<>> => step' = "review"
      /\ (step # "review" /\ step' = "review")
           => /\ matches = <<>>
              /\ Len(matches') = Len(parsedIngredients) ]_vars

\* a second match request is in flight after a first batch was cancelled
\* with its commit still pending: nothing of either batch is held
C11_Witness ==
  /\ step = "matching"
  /\ parseState = "matching"
  /\ commitState = "pending"
  /\ Len(parsedIngredients) = 2
  /\ Len(searches) = 1
  /\ matches = <<>>

\* a step of the page; an answer to a call of the cart store is none, and
\* leaves the request and the toast of the last page step standing
PageStep == pageVars' # pageVars

\* C12: while a commit request is pending no step sends another
\* add-to-cart request; the step in which a commit succeeds discards the
\* batch and returns to input, and the step after it sends no request.
C12_NoDoubleCommit ==
  [][ /\ commitState = "pending" /\ PageStep => addToCartRequest' = <<>>
      /\ toast' = "success"
           => matches' = <<>> /\ step' = "input" /\ commitState' = "idle"
      /\ toast = "success" => addToCartRequest' = <<>> ]_vars

\* the commit has just succeeded
C12_Witness ==
  /\ toast = "success"
  /\ commitState = "idle"
  /\ step = "input"
  /\ matches = <<>>
  /\ parseState = "idle"

C15_EmptyInputReported ==
  ~(step = "review" /\ matches = <<>>)

\* C16: needsReviewCount is the number of held records that need review; it
\* is 0 when the page holds no batch.
C16_ReviewCountMatches ==
  needsReviewCount = Cardinality({k \in 1..Len(matches) : matches[k].needs_review})

\* C17: only the last request issued can be in flight, so at most one add
\* is pending and add k+1 is issued after add k has settled; the cart is read
\* after every item has been attempted and its add has settled.
C17_AddsSerialized ==
  /\ \A k \in 1..Len(bCalls) : bCalls[k].outcome = "pending" => k = Len(bCalls)
  /\ \A k \in 1..Len(bCalls) :
       bCalls[k].op = "getShoppingCart"
         => /\ k = Len(bCalls)
            /\ Len(AddCalls) = Len(bItems)
            /\ \A a \in 1..Len(AddCalls) : AddCalls[a].outcome # "pending"
  /\ Len(AddCalls) <= Len(bItems)

\* the cart read is in flight after three adds, one of which was rejected
C17_Witness ==
  /\ bPc = "awaitCart"
  /\ Len(bItems) = 3
  /\ Len(bCalls) = 4
  /\ bCalls[2].outcome = "rejected"
  /\ bCalls[4].outcome = "pending"

\* C18: a successful get_order_history response carries the filtered list:
\* without a filter only COMPLETED orders, with a filter other than ALL only
\* orders of that status, with ALL every delivery; `orders` is the first
\* min(limit, total) deliveries of the filtered list, `total` its size and
\* `returned` the length of `orders`.
C18_OrderHistoryContract ==
  /\ GetOrderHistorySchema(<<>>).filter = "COMPLETED"
  /\ oResponse.shape = "orders"
       => LET filtered == IF oArgs.filter = "ALL" THEN oDeliveries
                          ELSE SelectSeq(oDeliveries,
                                         LAMBDA d : d.status = oArgs.filter)
              n == IF oArgs.limit < Len(filtered) THEN oArgs.limit
                   ELSE Len(filtered)
          IN /\ oResponse.total = Len(filtered)
             /\ oResponse.returned = Len(oResponse.orders)
             /\ oResponse.returned = (IF n < 0 THEN 0 ELSE n)
             /\ oResponse.orders = SubSeq(filtered, 1, n)

\* C19: whenever the session is in the matching step it eventually reaches
\* review or returns to input.
C19_MatchingEnds ==
  (step = "matching") ~> (step \in {"review", "input"})

\* C20: the success of a commit that was cancelled, arriving while a new
\* batch is being resolved, leaves the new session's step, inputs and
\* records as they are.
C20_LateCommitSparesNewSession ==
  [][ (commitState = "pending" /\ parseState # "idle" /\ toast' = "success")
        => /\ step' = step
           /\ urlInput' = urlInput
           /\ textInput' = textInput
           /\ matches' = matches ]_vars

\* the candidates of a record, as a set
CandidatesOf(m) == {m.matches[p] : p \in 1..Len(m.matches)}

\* C21: the selection of every held record is either nothing or one of the
\* record's own candidates, so a record without candidates has no selection;
\* every record of a commit request has candidates and carries one of them.
C21_SelectionIsOwnCandidate ==
  /\ \A i \in 1..Len(matches) :
       matches[i].selected = Undefined \/ matches[i].selected \in CandidatesOf(matches[i])
  /\ \A i \in 1..Len(matches) :
       Len(matches[i].matches) = 0 => matches[i].selected = Undefined
  /\ \A k \in 1..Len(addToCartRequest) :
       /\ Len(addToCartRequest[k].matches) > 0
       /\ addToCartRequest[k].selected \in CandidatesOf(addToCartRequest[k])

\* a batch with a record without candidates and a record whose second
\* candidate was chosen is committed: only the second record is sent
C21_Witness ==
  /\ step = "review"
  /\ Len(matches) = 2
  /\ matches[1].status = "not_found"
  /\ matches[1].selected = Undefined
  /\ Len(matches[2].matches) = 2
  /\ matches[2].selected = matches[2].matches[2]
  /\ Len(addToCartRequest) = 1

\* the first candidate of a record, nothing for a record without candidates
FirstCandidate(m) == IF Len(m.matches) > 0 THEN m.matches[1] ELSE Undefined

\* a step inside review that edits the records with the panel left as it is:
\* a click on a main row
RowClicked ==
  /\ step = "review" /\ step' = "review"
  /\ expandedIndex' = expandedIndex
  /\ Len(matches') = Len(matches)
  /\ commitState' = commitState
  /\ parseState = "idle" /\ parseState' = "idle"

\* C22: a click on a row deselects a selected record and gives a deselected
\* one its first candidate, leaving everything else of the batch alone; for
\* every held record, off and on again ends with the first candidate (nothing
\* for a record without candidates), which is the previous selection exactly
\* when that was the first candidate; a record without candidates is left
\* unchanged by any number of toggles.
C22_ToggleRoundTrip ==
  /\ [][ RowClicked =>
           \A i \in 1..Len(matches) :
             \/ matches'[i] = matches[i]
             \/ /\ matches[i].selected # Undefined
                /\ matches'[i] = [matches[i] EXCEPT !.selected = Undefined]
             \/ /\ matches[i].selected = Undefined
                /\ matches'[i] = [matches[i] EXCEPT !.selected = FirstCandidate(matches[i])] ]_vars
  /\ [](\A i \in 1..Len(matches) :
           LET once  == toggled(matches, i)
               twice == toggled(once, i)
           IN /\ matches[i].selected # Undefined
                   => /\ once[i].selected = Undefined
                      /\ twice[i].selected = FirstCandidate(matches[i])
                      /\ (twice = matches) = (matches[i].selected = FirstCandidate(matches[i]))
              /\ matches[i].selected = Undefined
                   => /\ once[i].selected = FirstCandidate(matches[i])
                      /\ twice = matches
              /\ Len(matches[i].matches) = 0 => once = matches /\ twice = matches)

\* a record whose second candidate had been chosen was toggled off and on:
\* after the first click it is deselected, next to an untouched record
C22_Witness ==
  /\ step = "review"
  /\ Len(matches) = 2
  /\ Len(matches[1].matches) = 2
  /\ matches[1].selected = Undefined
  /\ matches[2].status = "not_found"
  /\ expandedIndex = NoIndex

\* C23: when the request of an addItem, removeItem or clearCart call fails
\* while it is the only store call in flight, the store's cart is again the
\* cart the call found when it started and the error is rethrown.
C23_RollbackOnError ==
  [][ (/\ settledAs' = "rejected"
       /\ Len(cartCalls) = 1
       /\ cartCalls[1].op \in {"addItem", "removeItem", "clearCart"})
        => /\ cart' = cartCalls[1].currentCart
           /\ thrown'
           /\ cartCalls' = <<>> ]_vars

\* a failed call has just been rolled back to a cart holding the item once:
\* the optimistic second item of an addItem is gone
C23_Witness ==
  /\ settledAs = "rejected"
  /\ thrown
  /\ cartCalls = <<>>
  /\ cart = CartOf(1)
  /\ lastConfirmed = CartOf(1)

\* C24: once every store call has settled, the store's cart is the cart of
\* the last successful server response.
C24_NeverEndsOnStaleCart ==
  (cartCalls = <<>> /\ ~lastConfirmed.isNull) => cart = lastConfirmed

\* C25: AuthGuard renders the protected content only when the store is not
\* loading, needs no PIN setup and is authenticated, and only after a server
\* answer of this page load confirmed the authentication; a failed checkAuth
\* leaves isAuthenticated false, and when a logout call has ended, with or
\* without success, the protected content is not rendered.
C25_ProtectedOnlyAfterConfirmation ==
  [][ /\ AuthGuard' = "children"
           => /\ ~authIsLoading' /\ ~needsPinSetup' /\ isAuthenticated'
              /\ serverConfirmed'
      /\ (authSettled'.op = "checkAuth" /\ authSettled'.answer = "error")
           => ~isAuthenticated'
      /\ authSettled'.op = "logout"
           => /\ ~isAuthenticated'
              /\ AuthGuard' # "children" ]_vars

\* checkAuth has just answered that the user is authenticated and the
\* protected content is shown
C25_Witness ==
  /\ AuthGuard = "children"
  /\ authSettled = [op |-> "checkAuth", answer |-> "positive"]
  /\ serverConfirmed
  /\ logoutPending = 0

\* C26: every checkAuth, setupPin and verifyPin call that ends, whatever the
\* answer, leaves isLoading false.
C26_NoAuthCallLeavesLoading ==
  [][ authSettled'.op \in {"checkAuth", "setupPin", "verifyPin"}
        => ~authIsLoading' ]_vars

\* only digits
AllDigits(v) == \A k \in 1..Len(v) : v[k] \in {"0", "1", "2", "3", "4", "5", "6", "7", "8", "9"}

\* C27: pin and confirmPin hold at most 6 characters, all digits; the confirm
\* step is held only with a pin of 4 to 6 digits, and the pin does not change
\* while the form stays in the confirm step; a setupPin call carries the pin
\* of the form, which has 4 to 6 digits and equals the confirmation entry,
\* and a submit with different entries calls nothing.
C27_SetupPinOnlyWithConfirmedPin ==
  [][ /\ AllDigits(pin') /\ Len(pin') <= 6
      /\ AllDigits(confirmPin') /\ Len(confirmPin') <= 6
      /\ pinStep' = "confirm" => (Len(pin') >= 4 /\ Len(pin') <= 6)
      /\ (pinStep = "confirm" /\ pinStep' = "confirm") => pin' = pin
      /\ setupPinCall'.called
           => /\ pinStep = "confirm"
              /\ setupPinCall'.pin = pin
              /\ pin = confirmPin
              /\ AllDigits(pin) /\ Len(pin) >= 4 /\ Len(pin) <= 6
      /\ (pinStep = "confirm" /\ pin # confirmPin) => ~setupPinCall'.called ]_vars

\* setupPin has just been called with a PIN of six digits
C27_Witness ==
  /\ setupPinCall.called
  /\ Len(setupPinCall.pin) = 6
  /\ setupPinCall.pin[1] = "2"
  /\ authPending = "setupPin"
  /\ AuthGuard = "loading"

====
